---------------------------- MODULE Spec2Model ----------------------------
(***************************************************************************)
(* A model of the medicine service of src/app.py: the index-page locator   *)
(* and record assembly of get_medicine, the side-effect table collection,  *)
(* and the add / list / delete / pdf handlers over the medicines table.    *)
(*                                                                         *)
(* Text is a sequence of one-character strings, so that lower-casing,      *)
(* whitespace normalisation and substring search are computed.             *)
(***************************************************************************)
EXTENDS Integers, Sequences, FiniteSets, TLC

(***************************************************************************)
(* Bounds of the model.                                                    *)
(***************************************************************************)
\* the largest number of non-empty pages the site's index holds, all buckets together
MaxPages == 3
\* the largest row id the model lets AUTOINCREMENT hand out
MaxId == 2
\* the largest number of elements that follow the side-effects heading
MaxDoc == 4

\* Python's None, told apart from every text, address and file name
None == <<"None">>

(***************************************************************************)
(* Text helpers.                                                           *)
(***************************************************************************)
\* string.ascii_uppercase, cut to its first three letters
ascii_uppercase == <<"A", "B", "C">>
ascii_lowercase == <<"a", "b", "c">>

\* the characters \s matches that the model uses
Whitespace == {" ", "\n", "\t", "\r"}

lower(ch) ==
    IF \E i \in 1..Len(ascii_uppercase) : ascii_uppercase[i] = ch
    THEN ascii_lowercase[CHOOSE i \in 1..Len(ascii_uppercase) : ascii_uppercase[i] = ch]
    ELSE ch

upper(ch) ==
    IF \E i \in 1..Len(ascii_lowercase) : ascii_lowercase[i] = ch
    THEN ascii_uppercase[CHOOSE i \in 1..Len(ascii_lowercase) : ascii_lowercase[i] = ch]
    ELSE ch

\* str.lower()
LowerStr(s) == [i \in 1..Len(s) |-> lower(s[i])]

\* str.strip()
RECURSIVE LStrip(_)
LStrip(s) == IF s # <<>> /\ Head(s) \in Whitespace THEN LStrip(Tail(s)) ELSE s

RECURSIVE RStrip(_)
RStrip(s) ==
    IF s # <<>> /\ s[Len(s)] \in Whitespace THEN RStrip(SubSeq(s, 1, Len(s) - 1)) ELSE s

strip(s) == RStrip(LStrip(s))

\* `sub in s` of Python
Contains(s, sub) ==
    \E i \in 0..(Len(s) - Len(sub)) : SubSeq(s, i + 1, i + Len(sub)) = sub

(***************************************************************************)
(* The upstream site.  A page is the sequence of its document links, each  *)
(* with the link text, the text of the `small.ingredient` sibling that     *)
(* find_next_sibling returns for it (empty when there is none) and the     *)
(* href.                                                                   *)
(***************************************************************************)
base == "https://medsinfo.com.au"

urljoin(b, href) == <<b, href>>

Row(name, ing, href) == [name |-> name, ing |-> ing, href |-> href]

rowX == Row(<<"A", "b">>, <<>>, "/document/x")
rowY == Row(<<"c", "B">>, <<"a">>, "/document/y")
rowZ == Row(<<"C">>, <<"b", "c">>, "/document/z")

PagePool == { <<rowX, rowY>>, <<rowZ>> }

RECURSIVE SeqsUpTo(_, _)
SeqsUpTo(S, n) ==
    IF n = 0 THEN { <<>> }
    ELSE LET shorter == SeqsUpTo(S, n - 1)
         IN  shorter \cup { Append(s, e) : s \in { t \in shorter : Len(t) = n - 1 }, e \in S }

Letters == { ascii_uppercase[i] : i \in 1..Len(ascii_uppercase) }

\* the index the service runs against
SiteIndex == [L \in Letters |->
                 CASE L = "A" -> << <<rowY, rowX>> >>
                   [] L = "B" -> <<>>
                   [] L = "C" -> << <<rowZ>> >>]

\* a bucket: its non-empty pages, in page order
BucketPool == SeqsUpTo(PagePool, MaxPages)

IndexPool ==
    { idx \in [Letters -> BucketPool] :
        Len(idx["A"]) + Len(idx["B"]) + Len(idx["C"]) <= MaxPages }

\* the queries the locator is run on
LocQueries == { <<"c", "b">>, <<"B", "C">>, <<"b">>, <<"1">>, <<" ", "a", "c">> }

VARIABLES
    index,      \* the site's A-to-Z index: letter -> bucket
    endless,    \* TRUE: past its last page a bucket serves that page again
    store,      \* the rows of table medicines
    nextId,     \* the next AUTOINCREMENT id
    files,      \* the file names in PDF_DIR
    pc,         \* per request: where its handler stands
    op,         \* per request: the route
    q,          \* per request: the q parameter, stripped
    letter,     \* get_medicine: position in all_letters
    page,       \* get_medicine: page
    detail,     \* get_medicine: detail
    log,        \* get_medicine: the index fetches made, in order
    net,        \* per request: the kinds of network fetch made
    res,        \* add: res
    resp,       \* per request: the response
    soup,       \* extract_side_effects_from_soup: the parsed detail document
    tables,     \* extract_side_effects_from_soup: tables, as places in the document
    side_effects \* extract_side_effects_from_soup: the value returned, <<>> before the call

vars == <<index, endless, store, nextId, files, pc, op, q, letter, page,
          detail, log, net, res, resp, soup, tables, side_effects>>

\* the state of the service, and the state of one side-effect extraction
service_vars == <<index, endless, store, nextId, files, pc, op, q, letter, page,
                  detail, log, net, res, resp>>
extraction_vars == <<soup, tables, side_effects>>

Clients == {"c1", "c2"}

(***************************************************************************)
(* get_medicine, the index traversal.                                      *)
(***************************************************************************)
\* first, all_letters
first(drug) == upper(strip(drug)[1])

RECURSIVE Without(_, _)
Without(s, x) ==
    IF s = <<>> THEN <<>>
    ELSE IF Head(s) = x THEN Without(Tail(s), x)
    ELSE <<Head(s)>> \o Without(Tail(s), x)

\* variant: the starting bucket only, no fallback scan; C7 does not survive it
first_letter_only(drug) == <<first(drug)>>

all_letters(drug) == <<first(drug)>> \o Without(ascii_uppercase, first(drug))

\* what the site serves for letter L, page p
PageAt(idx, endl, L, p) ==
    LET bucket == IF L \in DOMAIN idx THEN idx[L] ELSE <<>>
    IN  IF p <= Len(bucket) THEN bucket[p]
        ELSE IF endl /\ bucket # <<>> THEN bucket[Len(bucket)]
        ELSE <<>>

\* the test of lines 230-233
Matches(drug, a) ==
    LET lw        == LowerStr(strip(drug))
        link_text == LowerStr(a.name)
        ing_text  == LowerStr(a.ing)
    IN  lw = link_text \/ Contains(link_text, lw) \/ lw = ing_text \/ Contains(ing_text, lw)

\* variant: the last matching link of the page wins; C6 does not survive it
LastMatch(drug, doc_links) ==
    IF \E i \in 1..Len(doc_links) : Matches(drug, doc_links[i])
    THEN CHOOSE i \in 1..Len(doc_links) :
            /\ Matches(drug, doc_links[i])
            /\ \A j \in (i + 1)..Len(doc_links) : ~Matches(drug, doc_links[j])
    ELSE 0

\* the for loop over doc_links: the first link that matches, 0 when none does
FirstMatch(drug, doc_links) ==
    IF \E i \in 1..Len(doc_links) : Matches(drug, doc_links[i])
    THEN CHOOSE i \in 1..Len(doc_links) :
            /\ Matches(drug, doc_links[i])
            /\ \A j \in 1..(i - 1) : ~Matches(drug, doc_links[j])
    ELSE 0

\* a cap on the page counter, which the code leaves unbounded
PageCap == MaxPages + 1

current_letter(c) == all_letters(q[c])[letter[c]]

\* the history of a traversal: each index fetch with its letter, page and
\* outcome ("fail", "empty", "match", "nomatch"); kept where a specification asks
Traced(c, outcome) ==
    log' = [log EXCEPT ![c] =
              Append(@, [letter |-> current_letter(c), page |-> page[c], outcome |-> outcome])]

Untraced == UNCHANGED log

\* the row of a response that carries none, and the record get_medicine did not build
NoRow == [id |-> 0, url |-> None, name |-> None, pdf_url |-> None, pdf_filename |-> None]
NoRecord == [url |-> None, name |-> None, pdf_url |-> None, pdf_filename |-> None]

Response(status, error, source, row, rows, key) ==
    [status |-> status, error |-> error, source |-> source, row |-> row, rows |-> rows,
     key |-> key]

NoResponse == Response(0, "", "", NoRow, {}, None)
NotFound == Response(404, "Not found", "", NoRow, {}, None)

\* a `break` out of the while loop with detail unset: the for loop takes the
\* next letter; after the last one get_medicine returns None and add answers 404
NextLetter(c) ==
    IF letter[c] < Len(all_letters(q[c]))
    THEN /\ letter' = [letter EXCEPT ![c] = @ + 1]
         /\ page' = [page EXCEPT ![c] = 1]
         /\ UNCHANGED <<pc, resp>>
    ELSE /\ pc' = [pc EXCEPT ![c] = "done"]
         /\ resp' = [resp EXCEPT ![c] = NotFound]
         /\ UNCHANGED <<letter, page>>

\* variant: a failed index fetch ends the whole lookup; C8 does not survive it
FetchIndexFailEndsLookup(c) ==
    /\ pc[c] = "index"
    /\ page[c] <= PageCap
    /\ net' = [net EXCEPT ![c] = @ \cup {"index"}]
    /\ pc' = [pc EXCEPT ![c] = "done"]
    /\ resp' = [resp EXCEPT ![c] = NotFound]
    /\ UNCHANGED <<index, endless, store, nextId, files, op, q, detail, res, letter, page>>

\* requests.get(idx_url) raises (timeout, connection error) or raise_for_status does
FetchIndexFail(c) ==
    /\ pc[c] = "index"
    /\ page[c] <= PageCap
    /\ net' = [net EXCEPT ![c] = @ \cup {"index"}]
    /\ NextLetter(c)
    /\ UNCHANGED <<index, endless, store, nextId, files, op, q, detail, res>>

\* what a fetch of the current index page that succeeds finds
Outcome(c) ==
    LET doc_links == PageAt(index, endless, current_letter(c), page[c])
    IN  IF doc_links = <<>> THEN "empty"
        ELSE IF FirstMatch(q[c], doc_links) # 0 THEN "match"
        ELSE "nomatch"

\* the index page arrives: no document link, a matching link, or none that matches
FetchIndexOk(c) ==
    /\ pc[c] = "index"
    /\ page[c] <= PageCap
    /\ net' = [net EXCEPT ![c] = @ \cup {"index"}]
    /\ LET doc_links == PageAt(index, endless, current_letter(c), page[c])
           hit       == FirstMatch(q[c], doc_links)
       IN  IF doc_links = <<>>
           THEN /\ NextLetter(c)
                /\ UNCHANGED detail
           ELSE IF hit # 0
           THEN /\ detail' = [detail EXCEPT ![c] = urljoin(base, doc_links[hit].href)]
                /\ pc' = [pc EXCEPT ![c] = "detail"]
                /\ UNCHANGED <<letter, page, resp>>
           ELSE /\ page' = [page EXCEPT ![c] = @ + 1]
                /\ UNCHANGED <<letter, detail, pc, resp>>
    /\ UNCHANGED <<index, endless, store, nextId, files, op, q, res>>

(***************************************************************************)
(* get_medicine, the detail page and the attachment.                       *)
(***************************************************************************)
\* the detail documents of the site: the text of the h1 (None when the page
\* has none) and the href of the PDF anchor ("" when the page has none)
SiteDocs ==
    [ u \in { urljoin(base, "/document/x"), urljoin(base, "/document/y"),
              urljoin(base, "/document/z") } |->
        CASE u[2] = "/document/x" -> [h1 |-> <<"B">>, pdf |-> "/x?format=pdf"]
          [] u[2] = "/document/y" -> [h1 |-> None, pdf |-> ""]
          [] u[2] = "/document/z" -> [h1 |-> <<"C", " ", "\n", "b">>, pdf |-> ""] ]

\* re.sub(r'[^0-9A-Za-z_-]', '_', name) + ext, ext being '.pdf' for the site's links
SafeChars ==
    { ascii_uppercase[i] : i \in 1..Len(ascii_uppercase) }
        \cup { ascii_lowercase[i] : i \in 1..Len(ascii_lowercase) } \cup {"1", "_", "-"}

safe(name) == <<[i \in 1..Len(name) |-> IF name[i] \in SafeChars THEN name[i] ELSE "_"], ".pdf">>

\* lines 262-266
title(doc, drug) == IF doc.h1 # None THEN doc.h1 ELSE strip(drug)

\* lines 359-366, 368-381: the record, given what download_pdf returned
pdf_href(doc) == IF doc.pdf # "" THEN urljoin(base, doc.pdf) ELSE None

Record(dt, doc, drug, pdf_file) ==
    [ url          |-> dt,
      name         |-> title(doc, drug),
      pdf_url      |-> pdf_href(doc),
      pdf_filename |-> pdf_file ]

\* the traversal's locals go out of use once the index loop is left
LeaveLoop(c) ==
    /\ letter' = [letter EXCEPT ![c] = 0]
    /\ page' = [page EXCEPT ![c] = 0]

FetchError == Response(500, "fetch error", "", NoRow, {}, None)

\* requests.get(detail) fails: get_medicine returns None and add answers 404
FetchDetailFail(c) ==
    /\ pc[c] = "detail"
    /\ net' = [net EXCEPT ![c] = @ \cup {"detail"}]
    /\ pc' = [pc EXCEPT ![c] = "done"]
    /\ resp' = [resp EXCEPT ![c] = NotFound]
    /\ UNCHANGED <<index, endless, store, nextId, files, op, q, detail, res, log>>
    /\ LeaveLoop(c)

\* the detail page arrives and has no PDF anchor
FetchDetailNoPdf(c) ==
    /\ pc[c] = "detail"
    /\ detail[c] \in DOMAIN SiteDocs
    /\ pdf_href(SiteDocs[detail[c]]) = None
    /\ net' = [net EXCEPT ![c] = @ \cup {"detail"}]
    /\ res' = [res EXCEPT ![c] = Record(detail[c], SiteDocs[detail[c]], q[c], None)]
    /\ pc' = [pc EXCEPT ![c] = "lookup"]
    /\ UNCHANGED <<index, endless, store, nextId, files, op, q, detail, resp, log>>
    /\ LeaveLoop(c)

\* the detail page has a PDF anchor and download_pdf stores the file
FetchDetailPdfSaved(c) ==
    /\ pc[c] = "detail"
    /\ detail[c] \in DOMAIN SiteDocs
    /\ pdf_href(SiteDocs[detail[c]]) # None
    /\ LET doc == SiteDocs[detail[c]]
           fn  == safe(title(doc, q[c]))
       IN  /\ files' = files \cup {fn}
           /\ res' = [res EXCEPT ![c] = Record(detail[c], doc, q[c], fn)]
    /\ net' = [net EXCEPT ![c] = @ \cup {"detail", "pdf"}]
    /\ pc' = [pc EXCEPT ![c] = "lookup"]
    /\ UNCHANGED <<index, endless, store, nextId, op, q, detail, resp, log>>
    /\ LeaveLoop(c)

\* the detail page has a PDF anchor and the download fails: download_pdf returns None
FetchDetailPdfFailed(c) ==
    /\ pc[c] = "detail"
    /\ detail[c] \in DOMAIN SiteDocs
    /\ pdf_href(SiteDocs[detail[c]]) # None
    /\ res' = [res EXCEPT ![c] = Record(detail[c], SiteDocs[detail[c]], q[c], None)]
    /\ net' = [net EXCEPT ![c] = @ \cup {"detail", "pdf"}]
    /\ pc' = [pc EXCEPT ![c] = "lookup"]
    /\ UNCHANGED <<index, endless, store, nextId, files, op, q, detail, resp, log>>
    /\ LeaveLoop(c)

\* get_medicine raises while it parses the detail page: add answers 500
GetMedicineRaises(c) ==
    /\ pc[c] = "detail"
    /\ net' = [net EXCEPT ![c] = @ \cup {"detail"}]
    /\ pc' = [pc EXCEPT ![c] = "done"]
    /\ resp' = [resp EXCEPT ![c] = FetchError]
    /\ UNCHANGED <<index, endless, store, nextId, files, op, q, detail, res, log>>
    /\ LeaveLoop(c)

(***************************************************************************)
(* clean_value and the medicines table.                                    *)
(***************************************************************************)
\* re.sub(r'\s+', ' ', ...): runs of whitespace become one space
RECURSIVE Squeeze(_)
Squeeze(s) ==
    IF s = <<>> THEN <<>>
    ELSE IF Head(s) \in Whitespace
    THEN <<" ">> \o Squeeze(LStrip(s))
    ELSE <<Head(s)>> \o Squeeze(Tail(s))

\* clean_value on a str; None passes through
clean_value(val) == IF val = None THEN None ELSE strip(Squeeze(val))

\* the values bound to the INSERT (lines 430-434); url and the attachment
\* fields hold no whitespace
Cleaned(r) ==
    [ url          |-> r.url,
      name         |-> clean_value(r.name),
      pdf_url      |-> r.pdf_url,
      pdf_filename |-> r.pdf_filename ]

\* equality under COLLATE NOCASE, and lower(x) = lower(y)
NoCaseEq(a, b) == LowerStr(a) = LowerStr(b)

\* variant: a UNIQUE constraint without COLLATE NOCASE; C1 does not survive it
UniqueViolatedExact(rows, name) == \E r \in rows : r.name = name

\* the UNIQUE constraint on name (line 30)
UniqueViolated(rows, name) == \E r \in rows : NoCaseEq(r.name, name)

\* variant: a cache lookup that compares the names as they are; C3 does not
\* survive it
SelectExact(rows, name) == { r \in rows : r.name = name }

\* SELECT * FROM medicines WHERE lower(name)=lower(?)  (lines 414-418)
SelectLower(rows, name) == { r \in rows : LowerStr(r.name) = LowerStr(name) }

\* SELECT * FROM medicines WHERE name=?  (line 437), name being COLLATE NOCASE
SelectName(rows, name) == { r \in rows : NoCaseEq(r.name, name) }

\* fetchone(): the row of lowest id
fetchone(rows) == IF rows = {} THEN NoRow ELSE CHOOSE r \in rows : \A o \in rows : r.id <= o.id

WithId(r, id) ==
    [id |-> id, url |-> r.url, name |-> r.name, pdf_url |-> r.pdf_url,
     pdf_filename |-> r.pdf_filename]

Ok(row, source) == Response(200, "", source, row, {}, None)
MissingQ == Response(400, "Missing q", "", NoRow, {}, None)
ServerError(what) == Response(500, what, "", NoRow, {}, None)
NoMatch == Response(404, "No match", "", NoRow, {}, None)

(***************************************************************************)
(* The handlers.                                                           *)
(***************************************************************************)
\* the q parameters of /add
AddArgs == { <<" ">>, <<"c", "b">>, <<"b">>, <<"a", "b">>, <<"b", "c">> }

\* the q parameters of /delete
DeleteArgs == { <<>>, urljoin(base, "/document/x"), urljoin(base, "/document/y"),
                urljoin(base, "/document/z") }

\* /add with q missing or blank (lines 396-398)
AddMissing(c) ==
    /\ pc[c] = "idle"
    /\ \E arg \in AddArgs :
          /\ strip(arg) = <<>>
          /\ q' = [q EXCEPT ![c] = strip(arg)]
    /\ op' = [op EXCEPT ![c] = "add"]
    /\ pc' = [pc EXCEPT ![c] = "done"]
    /\ resp' = [resp EXCEPT ![c] = MissingQ]
    /\ UNCHANGED <<index, endless, store, nextId, files, letter, page, detail, log, net, res>>

\* /add enters get_medicine (lines 396-403, 189-201)
AddStart(c) ==
    /\ pc[c] = "idle"
    /\ \E arg \in AddArgs :
          /\ strip(arg) # <<>>
          /\ q' = [q EXCEPT ![c] = strip(arg)]
    /\ op' = [op EXCEPT ![c] = "add"]
    /\ pc' = [pc EXCEPT ![c] = "index"]
    /\ letter' = [letter EXCEPT ![c] = 1]
    /\ page' = [page EXCEPT ![c] = 1]
    /\ UNCHANGED <<index, endless, store, nextId, files, detail, log, net, res, resp>>

\* the cache lookup by the scraped name (lines 413-423)
AddLookup(c) ==
    /\ pc[c] = "lookup"
    /\ LET row == fetchone(SelectLower(store, res[c].name))
       IN  IF row # NoRow
           THEN /\ pc' = [pc EXCEPT ![c] = "done"]
                /\ resp' = [resp EXCEPT ![c] = Ok(row, "cache")]
           ELSE /\ pc' = [pc EXCEPT ![c] = "insert"]
                /\ UNCHANGED resp
    /\ UNCHANGED <<index, endless, store, nextId, files, op, q, letter, page, detail, log, net, res>>

\* variant: INSERT OR REPLACE, which replaces the stored row of the same name
\* by the new one; C12 does not survive it
AddInsertOrReplace(c) ==
    /\ pc[c] = "insert"
    /\ nextId <= MaxId
    /\ LET new == Cleaned(res[c])
       IN  store' = { r \in store : ~NoCaseEq(r.name, new.name) } \cup {WithId(new, nextId)}
    /\ nextId' = nextId + 1
    /\ pc' = [pc EXCEPT ![c] = "reread"]
    /\ UNCHANGED resp
    /\ UNCHANGED <<index, endless, files, op, q, letter, page, detail, log, net, res>>

\* INSERT and commit (lines 425-435); a name the table holds raises IntegrityError
AddInsert(c) ==
    /\ pc[c] = "insert"
    /\ nextId <= MaxId
    /\ LET new == Cleaned(res[c])
       IN  IF UniqueViolated(store, new.name)
           THEN /\ pc' = [pc EXCEPT ![c] = "done"]
                /\ resp' = [resp EXCEPT ![c] = ServerError("IntegrityError")]
                /\ UNCHANGED <<store, nextId>>
           ELSE /\ store' = store \cup {WithId(new, nextId)}
                /\ nextId' = nextId + 1
                /\ pc' = [pc EXCEPT ![c] = "reread"]
                /\ UNCHANGED resp
    /\ UNCHANGED <<index, endless, files, op, q, letter, page, detail, log, net, res>>

\* the re-read by name (lines 437-442); dict(zip(cols2, None)) raises TypeError
AddReread(c) ==
    /\ pc[c] = "reread"
    /\ LET row2 == fetchone(SelectName(store, res[c].name))
       IN  resp' = [resp EXCEPT ![c] =
                      IF row2 # NoRow THEN Ok(row2, "remote") ELSE ServerError("TypeError")]
    /\ pc' = [pc EXCEPT ![c] = "done"]
    /\ UNCHANGED <<index, endless, store, nextId, files, op, q, letter, page, detail, log, net, res>>

\* /list (lines 451-457)
Lst(c) ==
    /\ pc[c] = "idle"
    /\ op' = [op EXCEPT ![c] = "list"]
    /\ pc' = [pc EXCEPT ![c] = "done"]
    /\ resp' = [resp EXCEPT ![c] = Response(200, "", "", NoRow, store, None)]
    /\ UNCHANGED <<index, endless, store, nextId, files, q, letter, page, detail, log, net, res>>

\* /delete (lines 459-469)
Delete(c) ==
    /\ pc[c] = "idle"
    /\ \E u \in DeleteArgs :
          /\ q' = [q EXCEPT ![c] = u]
          /\ IF strip(u) = <<>>
             THEN /\ resp' = [resp EXCEPT ![c] = MissingQ]
                  /\ UNCHANGED store
             ELSE LET hit == { r \in store : r.url = u }
                  IN  /\ store' = store \ hit
                      /\ resp' = [resp EXCEPT ![c] = IF hit = {} THEN NoMatch
                                                    ELSE Response(200, "", "", NoRow, {}, u)]
    /\ op' = [op EXCEPT ![c] = "delete"]
    /\ pc' = [pc EXCEPT ![c] = "done"]
    /\ UNCHANGED <<index, endless, nextId, files, letter, page, detail, log, net, res>>

\* the file names asked of /pdf
PdfArgs == { safe(<<"B">>), safe(<<"b">>) }

\* /pdf/<fn> (lines 444-449)
Pdf(c) ==
    /\ pc[c] = "idle"
    /\ \E fn \in PdfArgs :
          /\ q' = [q EXCEPT ![c] = fn]
          /\ resp' = [resp EXCEPT ![c] =
                        IF fn \in files THEN Response(200, "", "", NoRow, {}, fn)
                        ELSE Response(404, "Not Found", "", NoRow, {}, None)]
    /\ op' = [op EXCEPT ![c] = "pdf"]
    /\ pc' = [pc EXCEPT ![c] = "done"]
    /\ UNCHANGED <<index, endless, store, nextId, files, letter, page, detail, log, net, res>>

\* the response is sent; the worker takes the next request
Return(c) ==
    /\ pc[c] = "done"
    /\ pc' = [pc EXCEPT ![c] = "idle"]
    /\ op' = [op EXCEPT ![c] = ""]
    /\ q' = [q EXCEPT ![c] = <<>>]
    /\ letter' = [letter EXCEPT ![c] = 0]
    /\ page' = [page EXCEPT ![c] = 0]
    /\ detail' = [detail EXCEPT ![c] = None]
    /\ log' = [log EXCEPT ![c] = <<>>]
    /\ net' = [net EXCEPT ![c] = {}]
    /\ res' = [res EXCEPT ![c] = NoRecord]
    /\ resp' = [resp EXCEPT ![c] = NoResponse]
    /\ UNCHANGED <<index, endless, store, nextId, files>>

(***************************************************************************)
(* extract_side_effects_from_soup.  A document is what follows the side-   *)
(* effects heading: the nodes inside the h3 (for the fallback) and the     *)
(* elements after it in document order, as find_all_next yields them.  A   *)
(* table holds its rows, each the texts of its cells.                      *)
(***************************************************************************)
Element(name, rows) == [name |-> name, rows |-> rows]

H2 == Element("h2", <<>>)
H3 == Element("h3", <<>>)
P  == Element("p", <<>>)
TableA == Element("table", << << <<"a">>, <<"b">> >>, << <<"c">>, <<"a">> >> >>)
TableB == Element("table", << << <<"b">> >> >>)
TableEmpty == Element("table", <<>>)

\* a <strong> met after the heading (inside a paragraph, say); its row holds
\* the text that follows it
StrongAfter == Element("strong", << << <<"b", ",", "c", ".">> >> >>)

ElementPool == { H2, H3, P, TableA, TableB, TableEmpty, StrongAfter }

\* a node inside the heading: a <strong>, another tag, or a text
Strong == [kind |-> "strong", text |-> <<>>]
Text(t) == [kind |-> "text", text |-> t]

InsidePool ==
    { <<>>,
      << Strong, Text(<<"a", ",", " ", "b", ".">>) >>,
      << Strong, Text(<<" ">>), Text(<<"a", ",", "b">>), Strong, Text(<<"c", ".">>) >> }

SoupPool ==
    { [header |-> FALSE, inside |-> <<>>, after |-> <<>>] }
        \cup [header : {TRUE}, inside : InsidePool, after : SeqsUpTo(ElementPool, MaxDoc)]

\* lines 136-143: the places of the tables collected from place i on
RECURSIVE CollectTables(_, _, _)
CollectTables(after, i, found) ==
    IF i > Len(after) THEN found
    ELSE LET sib  == after[i]
             more == IF sib.name = "table" THEN Append(found, i) ELSE found
         IN  IF sib.name = "table" /\ Len(more) = 2 THEN more
             ELSE IF sib.name \in {"h2", "h3"} /\ more # <<>> THEN more
             ELSE CollectTables(after, i + 1, more)

\* extract_bottom_left_cell (lines 119-124)
extract_bottom_left_cell(table) ==
    IF table.rows = <<>> THEN None
    ELSE LET last_row == table.rows[Len(table.rows)]
         IN  IF last_row = <<>> THEN None ELSE strip(last_row[1])

\* str.split(','): the pieces between the commas
RECURSIVE SplitComma(_, _)
SplitComma(s, piece) ==
    IF s = <<>> THEN <<piece>>
    ELSE IF Head(s) = "," THEN <<piece>> \o SplitComma(Tail(s), <<>>)
    ELSE SplitComma(Tail(s), Append(piece, Head(s)))

\* str.strip('.')
RECURSIVE StripDots(_)
StripDots(s) ==
    IF s # <<>> /\ Head(s) = "." THEN StripDots(Tail(s))
    ELSE IF s # <<>> /\ s[Len(s)] = "." THEN StripDots(SubSeq(s, 1, Len(s) - 1))
    ELSE s

\* lines 174-179: the first non-blank text among the siblings after place i
RECURSIVE NextText(_, _)
NextText(inside, i) ==
    IF i > Len(inside) THEN <<>>
    ELSE IF inside[i].kind = "text" /\ strip(inside[i].text) # <<>> THEN strip(inside[i].text)
    ELSE NextText(inside, i + 1)

\* line 180
RECURSIVE Effects(_)
Effects(pieces) ==
    IF pieces = <<>> THEN <<>>
    ELSE IF strip(Head(pieces)) # <<>>
    THEN <<StripDots(strip(Head(pieces)))>> \o Effects(Tail(pieces))
    ELSE Effects(Tail(pieces))

\* the places of the <strong> tags inside the heading
RECURSIVE StrongPlaces(_, _)
StrongPlaces(inside, i) ==
    IF i > Len(inside) THEN <<>>
    ELSE IF inside[i].kind = "strong" THEN <<i>> \o StrongPlaces(inside, i + 1)
    ELSE StrongPlaces(inside, i + 1)

\* extract_effects_by_strong_order (lines 169-185): <<common, serious>>
extract_effects_by_strong_order(inside) ==
    LET all_strong  == StrongPlaces(inside, 1)
        strong_tags == IF Len(all_strong) > 2 THEN SubSeq(all_strong, 1, 2) ELSE all_strong
        list(k) == IF k <= Len(strong_tags)
                   THEN Effects(SplitComma(NextText(inside, strong_tags[k] + 1), <<>>))
                   ELSE <<>>
    IN  <<list(1), list(2)>>

\* lines 145-155: the result, from the tables collected
Extracted(sp, tbls) ==
    IF Len(tbls) >= 2
    THEN [common  |-> extract_bottom_left_cell(sp.after[tbls[1]]),
          serious |-> extract_bottom_left_cell(sp.after[tbls[2]])]
    ELSE LET lists == extract_effects_by_strong_order(sp.inside)
         IN  [common  |-> IF lists[1] # <<>> THEN lists[1][1] ELSE None,
              serious |-> IF lists[2] # <<>> THEN lists[2][1] ELSE None]

NoExtraction ==
    /\ soup = [header |-> FALSE, inside |-> <<>>, after |-> <<>>]
    /\ tables = <<>>
    /\ side_effects = <<>>

\* extract_side_effects_from_soup (lines 127-155); [] is the empty sequence
extract_side_effects_from_soup ==
    /\ side_effects = <<>>
    /\ IF ~soup.header
       THEN /\ tables' = <<>>
            /\ side_effects' = << [common |-> <<>>, serious |-> <<>>] >>
       ELSE /\ tables' = CollectTables(soup.after, 1, <<>>)
            /\ side_effects' = << Extracted(soup, tables') >>
    /\ UNCHANGED soup
    /\ UNCHANGED service_vars

(***************************************************************************)
(* The locator on its own: one get_medicine call, over every index of the  *)
(* pool, every query of LocQueries and every pattern of failed fetches.    *)
(***************************************************************************)
Idle(f) == [c \in Clients |-> f]

LocatorInit ==
    /\ index \in IndexPool
    /\ endless \in BOOLEAN
    /\ store = {}
    /\ nextId = 1
    /\ files = {}
    /\ \E drug \in LocQueries : q = [Idle(<<>>) EXCEPT !["c1"] = drug]
    /\ pc = [Idle("idle") EXCEPT !["c1"] = "index"]
    /\ op = [Idle("") EXCEPT !["c1"] = "add"]
    /\ letter = [Idle(0) EXCEPT !["c1"] = 1]
    /\ page = [Idle(0) EXCEPT !["c1"] = 1]
    /\ detail = Idle(None)
    /\ log = Idle(<<>>)
    /\ net = Idle({})
    /\ res = Idle(NoRecord)
    /\ resp = Idle(NoResponse)
    /\ NoExtraction

LocatorNext ==
    \/ FetchIndexFail("c1") /\ Traced("c1", "fail") /\ UNCHANGED extraction_vars
    \/ FetchIndexOk("c1") /\ Traced("c1", Outcome("c1")) /\ UNCHANGED extraction_vars

\* the traversal is sequential code: it always takes its next step
LocatorSpec == LocatorInit /\ [][LocatorNext]_vars /\ WF_vars(LocatorNext)

(***************************************************************************)
(* The service: the handlers of concurrent requests over one site.         *)
(***************************************************************************)
Init ==
    /\ index = SiteIndex
    /\ endless = FALSE
    /\ store = {}
    /\ nextId = 1
    /\ files = {}
    /\ pc = Idle("idle")
    /\ op = Idle("")
    /\ q = Idle(<<>>)
    /\ letter = Idle(0)
    /\ page = Idle(0)
    /\ detail = Idle(None)
    /\ log = Idle(<<>>)
    /\ net = Idle({})
    /\ res = Idle(NoRecord)
    /\ resp = Idle(NoResponse)
    /\ NoExtraction

\* the steps of one worker
Step(c) ==
        \/ AddMissing(c)
        \/ AddStart(c)
        \/ FetchIndexFail(c) /\ Untraced
        \/ FetchIndexOk(c) /\ Untraced
        \/ FetchDetailFail(c)
        \/ FetchDetailNoPdf(c)
        \/ FetchDetailPdfSaved(c)
        \/ FetchDetailPdfFailed(c)
        \/ GetMedicineRaises(c)
        \/ AddLookup(c)
        \/ AddInsert(c)
        \/ AddReread(c)
        \/ Lst(c)
        \/ Delete(c)
        \/ Pdf(c)
        \/ Return(c)

Next == \E c \in Clients : Step(c) /\ UNCHANGED extraction_vars

Spec == Init /\ [][Next]_vars

\* the service with one worker: requests run one after the other
SeqNext == Step("c1") /\ UNCHANGED extraction_vars

SeqSpec == Init /\ [][SeqNext]_vars

\* one extraction, from any document of the pool
ExtractionInit ==
    /\ index = SiteIndex
    /\ endless = FALSE
    /\ store = {}
    /\ nextId = 1
    /\ files = {}
    /\ pc = Idle("idle")
    /\ op = Idle("")
    /\ q = Idle(<<>>)
    /\ letter = Idle(0)
    /\ page = Idle(0)
    /\ detail = Idle(None)
    /\ log = Idle(<<>>)
    /\ net = Idle({})
    /\ res = Idle(NoRecord)
    /\ resp = Idle(NoResponse)
    /\ soup \in SoupPool
    /\ tables = <<>>
    /\ side_effects = <<>>

ExtractionSpec == ExtractionInit /\ [][extract_side_effects_from_soup]_vars

(***************************************************************************)
(* Properties of the locator.                                              *)
(***************************************************************************)
\* the query as the matching sees it, and the bucket it starts in
Needle(drug) == LowerStr(strip(drug))
StartBucket(drug) == upper(strip(drug)[1])

\* a listing row whose visible name or ingredient annotation contains the query
RowHolds(drug, a) ==
    Contains(LowerStr(a.name), Needle(drug)) \/ Contains(LowerStr(a.ing), Needle(drug))

PageHolds(drug, pg) == \E i \in 1..Len(pg) : RowHolds(drug, pg[i])

\* alphabetical position of a letter; the starting bucket comes before all
AlphaPos(drug, L) ==
    IF L = StartBucket(drug) THEN 0
    ELSE CHOOSE i \in 1..Len(ascii_uppercase) : ascii_uppercase[i] = L

\* L2 is the bucket visited right after L1
Follows(drug, L1, L2) ==
    /\ L2 \in Letters \ {StartBucket(drug)}
    /\ AlphaPos(drug, L1) < AlphaPos(drug, L2)
    /\ \A L \in Letters \ {StartBucket(drug)} :
          ~(AlphaPos(drug, L1) < AlphaPos(drug, L) /\ AlphaPos(drug, L) < AlphaPos(drug, L2))

LastBucket(drug, L) == ~\E L2 \in Letters : Follows(drug, L, L2)

Served(e) == PageAt(index, endless, e.letter, e.page)

Scanned(c) == log[c] # <<>>
Located(c) == Scanned(c) /\ pc[c] # "index"
NoFail(c) == \A i \in 1..Len(log[c]) : log[c][i].outcome # "fail"

\* C6: index pages are fetched in a fixed order - the bucket of the query's
\* upper-cased first character, then the other letters alphabetically, pages
\* 1, 2, 3, ... within a letter - and the address returned is that of the first
\* row, in page-then-row order, whose name or ingredient annotation contains
\* the query: no fetched page before the matching one holds such a row, no
\* page is fetched after it, and no later row of the matching page wins.
C6_FirstMatchInOrder ==
    \A c \in Clients :
        LET lg == log[c]
            n  == Len(lg)
        IN  /\ n > 0 => lg[1].letter = StartBucket(q[c]) /\ lg[1].page = 1
            /\ \A i \in 1..(n - 1) :
                  \/ lg[i + 1].letter = lg[i].letter /\ lg[i + 1].page = lg[i].page + 1
                  \/ Follows(q[c], lg[i].letter, lg[i + 1].letter) /\ lg[i + 1].page = 1
            /\ \A i \in 1..(n - 1) :
                  /\ lg[i].outcome # "match"
                  /\ lg[i].outcome # "fail" => ~PageHolds(q[c], Served(lg[i]))
            /\ (detail[c] # None) <=> (n > 0 /\ lg[n].outcome = "match")
            /\ detail[c] # None =>
                  /\ pc[c] # "index"
                  /\ \E i \in 1..Len(Served(lg[n])) :
                        /\ RowHolds(q[c], Served(lg[n])[i])
                        /\ \A j \in 1..(i - 1) : ~RowHolds(q[c], Served(lg[n])[j])
                        /\ detail[c] = urljoin(base, Served(lg[n])[i].href)
            /\ (n > 0 /\ lg[n].outcome = "nomatch") => ~PageHolds(q[c], Served(lg[n]))

\* a lookup that went past a bucket without a match and then found the row on
\* a later page, in that page's second row
C6_Witness ==
    /\ q["c1"] = <<"c", "b">>
    /\ detail["c1"] = urljoin(base, "/document/y")
    /\ Len(log["c1"]) >= 3
    /\ \E i \in 1..Len(log["c1"]) : log["c1"][i].outcome = "nomatch"

\* C8: a failed index fetch ends that letter's traversal only: the failed page
\* is not fetched again, no further page of the letter is fetched, the next
\* fetch is page 1 of the next letter, and the lookup goes on (it ends, with
\* the ordinary not-found answer, only when the failed letter was the last).
C8_FailureSkipsLetter ==
    \A c \in Clients :
        LET lg == log[c]
            n  == Len(lg)
        IN  \A i \in 1..n :
                lg[i].outcome = "fail" =>
                    /\ \A j \in 1..n : j # i =>
                          ~(lg[j].letter = lg[i].letter /\ lg[j].page = lg[i].page)
                    /\ \A j \in (i + 1)..n : lg[j].letter # lg[i].letter
                    /\ i < n => Follows(q[c], lg[i].letter, lg[i + 1].letter) /\ lg[i + 1].page = 1
                    /\ i = n =>
                          IF LastBucket(q[c], lg[i].letter)
                          THEN pc[c] = "done" /\ resp[c] = NotFound
                          ELSE /\ pc[c] = "index"
                               /\ page[c] = 1
                               /\ Follows(q[c], lg[i].letter, current_letter(c))

\* the first bucket's fetch failed and the row was still found in a later one
C8_Witness ==
    /\ Len(log["c1"]) >= 2
    /\ log["c1"][1].outcome = "fail"
    /\ detail["c1"] # None

\* the buckets in the order they are visited, as positions 0, 1, 2, ...
BucketsOf(drug) == {StartBucket(drug)} \cup Letters

RowPlaces == UNION { 1..Len(pg) : pg \in PagePool }

\* the places <<bucket, page, row>> of the index whose row holds the query
Holders(drug) ==
    { h \in BucketsOf(drug) \X (1..MaxPages) \X RowPlaces :
        LET pg == PageAt(index, FALSE, h[1], h[2])
        IN  h[3] <= Len(pg) /\ RowHolds(drug, pg[h[3]]) }

Before(drug, g, h) ==
    \/ AlphaPos(drug, g[1]) < AlphaPos(drug, h[1])
    \/ g[1] = h[1] /\ g[2] < h[2]
    \/ g[1] = h[1] /\ g[2] = h[2] /\ g[3] < h[3]

\* the starting bucket holds no match and another bucket does
MisBucketed(drug) ==
    /\ Holders(drug) # {}
    /\ \A h \in Holders(drug) : h[1] # StartBucket(drug)

\* the address the fallback scan is to return: the first holder in visiting order
FallbackAddress(drug) ==
    LET h == CHOOSE g \in Holders(drug) : \A k \in Holders(drug) \ {g} : Before(drug, g, k)
    IN  urljoin(base, PageAt(index, FALSE, h[1], h[2])[h[3]].href)

\* C7 as stated: with every bucket ending in an empty page and the query
\* mis-bucketed, the finished lookup has returned the address of the row the
\* fallback scan reaches, and it answers not-found only if no bucket holds a match.
C7_FallbackFindsIt ==
    \A c \in Clients :
        (Located(c) /\ ~endless) =>
            /\ MisBucketed(q[c]) => detail[c] = FallbackAddress(q[c])
            /\ detail[c] = None => Holders(q[c]) = {}

\* C7, amended: the same when no index fetch of the lookup fails; the lookup
\* ends in any case once every bucket ends in an empty page.
C7_FallbackFindsItUnlessFetchFails ==
    /\ \A c \in Clients : (Scanned(c) /\ ~endless) ~> Located(c)
    /\ [](\A c \in Clients :
            (Located(c) /\ ~endless /\ NoFail(c)) =>
                /\ MisBucketed(q[c]) => detail[c] = FallbackAddress(q[c])
                /\ detail[c] = None => Holders(q[c]) = {})

\* a mis-bucketed query found in a later bucket after the starting bucket's pages
C7_Witness ==
    /\ ~endless
    /\ MisBucketed(q["c1"])
    /\ NoFail("c1")
    /\ Located("c1")
    /\ detail["c1"] = FallbackAddress(q["c1"])
    /\ log["c1"][Len(log["c1"])].letter # StartBucket(q["c1"])

(***************************************************************************)
(* Properties of the store and of add.                                     *)
(***************************************************************************)
\* C1: no two stored rows have names that are equal when case is ignored,
\* whatever the interleaving of the requests.
C1_UniqueNames ==
    \A r1 \in store : \A r2 \in store :
        r1 # r2 => LowerStr(r1.name) # LowerStr(r2.name)

\* two adds raced on names that differ in case only: one row is stored, the
\* other insert was turned down
C1_Witness ==
    \E c \in Clients : \E r \in store :
        /\ resp[c].error = "IntegrityError"
        /\ r.name # clean_value(res[c].name)
        /\ LowerStr(r.name) = LowerStr(clean_value(res[c].name))

\* the step of worker c that leaves stage `at`
Leaves(c, at) == pc[c] = at /\ pc'[c] # at

\* C2: an insert that hits the uniqueness violation because a concurrent
\* writer stored the name after this writer's cache lookup is recovered: the
\* writer answers with the existing row, origin 'cache', and no error.
C2_ConflictRecovered ==
    [][\A c \in Clients :
         (Leaves(c, "insert") /\ SelectLower(store, res[c].name) # {}) =>
             /\ resp'[c].status = 200
             /\ resp'[c].source = "cache"
             /\ resp'[c].row \in SelectLower(store, res[c].name)]_vars

\* C3 as stated: a request answered from the cache has made no network fetch.
C3_CacheHitWithoutFetch ==
    \A c \in Clients : (pc[c] = "done" /\ resp[c].source = "cache") => net[c] = {}

\* C3, amended: when the scraped name equals a stored name, case ignored, at
\* the cache lookup, the lookup answers with that stored row tagged 'cache',
\* writes nothing and fetches nothing; the index and detail pages have been
\* fetched before it.
C3_CacheHitAfterFetch ==
    [][\A c \in Clients :
         (Leaves(c, "lookup") /\ \E r \in store : LowerStr(r.name) = LowerStr(res[c].name)) =>
             /\ pc'[c] = "done"
             /\ resp'[c].status = 200
             /\ resp'[c].source = "cache"
             /\ resp'[c].row \in store
             /\ LowerStr(resp'[c].row.name) = LowerStr(res[c].name)
             /\ store' = store /\ nextId' = nextId
             /\ net'[c] = net[c]
             /\ {"index", "detail"} \subseteq net[c]]_vars

\* a cache hit on a name stored in another case
C3_Witness ==
    \E c \in Clients :
        /\ pc[c] = "done"
        /\ resp[c].source = "cache"
        /\ resp[c].row.name # res[c].name
        /\ {"index", "detail"} \subseteq net[c]

\* the name add stores for the scraped title
StoredName(c) == clean_value(res[c].name)
Cached(c) == \E r \in store : LowerStr(r.name) = LowerStr(StoredName(c))

\* C4: with requests run one after the other, an add whose name the store
\* lacks inserts exactly one row and answers it with origin 'remote'; an add
\* whose name the store holds finds the row by the cache lookup, answers it
\* with origin 'cache', attempts no insert and leaves the store unchanged.
C4_RepeatedAddIdempotent ==
    [][\A c \in Clients :
         /\ (Leaves(c, "lookup") /\ Cached(c)) =>
                /\ pc'[c] = "done"
                /\ resp'[c].source = "cache"
                /\ LowerStr(resp'[c].row.name) = LowerStr(StoredName(c))
                /\ store' = store
         /\ (Leaves(c, "lookup") /\ ~Cached(c)) => pc'[c] = "insert"
         /\ (Leaves(c, "insert") /\ ~Cached(c)) =>
                /\ Cardinality(store') = Cardinality(store) + 1
                /\ \E r \in store' \ store : r.name = StoredName(c)
         /\ Leaves(c, "reread") =>
                /\ resp'[c].source = "remote"
                /\ resp'[c].row \in store
                /\ resp'[c].row.name = StoredName(c)]_vars

\* C5: delete on a url no stored row has answers not-found and leaves the
\* store unchanged; delete on a url some stored row has removes exactly one row.
C5_DeleteRemovesOne ==
    [][\A c \in Clients :
         (pc[c] = "idle" /\ op'[c] = "delete" /\ strip(q'[c]) # <<>>) =>
             IF \E r \in store : r.url = q'[c]
             THEN Cardinality(store) - Cardinality(store') = 1
             ELSE resp'[c] = NoMatch /\ store' = store]_vars

\* C9: when the detail page has an attachment link and its download fails,
\* the record is still produced and both its attachment fields are null.
C9_FailedDownloadNullsBoth ==
    \A c \in Clients :
        ("pdf" \in net[c] /\ res[c] # NoRecord /\ res[c].pdf_filename = None) =>
            res[c].pdf_url = None

\* the step in which worker c answers a request that is to leave the store
\* alone: a list, a pdf, or an add that ends in a cache hit, not-found,
\* missing-parameter or fetch-error answer
AnswersReadOnly(c) ==
    /\ pc[c] # "done"
    /\ pc'[c] = "done"
    /\ \/ op'[c] \in {"list", "pdf"}
       \/ /\ op'[c] = "add"
          /\ \/ resp'[c].source = "cache"
             \/ resp'[c] \in {NotFound, MissingQ, FetchError}

\* the step in which worker c runs a delete on url u
Deletes(c, u) == pc[c] = "idle" /\ op'[c] = "delete" /\ q'[c] = u

\* C12: a stored row is never updated in place: while its id is in the store
\* every field keeps the value it was inserted with, and it leaves the store
\* only by a delete on its url; list, pdf, and an add that ends in a cache hit,
\* not-found, missing-parameter or fetch-error answer leave the store
\* unchanged and have not written to it earlier in the request.
C12_RowsNeverUpdated ==
    [][/\ \A r \in store : \A r2 \in store' : r2.id = r.id => r2 = r
       /\ \A r \in store \ store' : \E c \in Clients : Deletes(c, r.url)
       /\ store' # store =>
             \E c \in Clients : Leaves(c, "insert") \/ (\E r \in store : Deletes(c, r.url))
       /\ \A c \in Clients :
             AnswersReadOnly(c) => store' = store /\ pc[c] \notin {"insert", "reread"}]_vars

\* a row that stayed as inserted while a later row came and went by a delete,
\* and that a later add answered from the cache
C12_Witness ==
    \E r \in store : \E c \in Clients :
        /\ nextId > r.id + 1
        /\ Cardinality(store) = 1
        /\ pc[c] = "done"
        /\ resp[c].source = "cache"
        /\ resp[c].row = r

(***************************************************************************)
(* Properties of the side-effect extraction.                               *)
(***************************************************************************)
\* the place of the first h2/h3 after the side-effects heading (past the end
\* when there is none)
NextHeading(after) ==
    IF \E i \in 1..Len(after) : after[i].name \in {"h2", "h3"}
    THEN CHOOSE i \in 1..Len(after) :
            /\ after[i].name \in {"h2", "h3"}
            /\ \A j \in 1..(i - 1) : after[j].name \notin {"h2", "h3"}
    ELSE Len(after) + 1

\* C10: a table located after the next h2/h3 heading is never taken as the
\* 'common' or 'serious' table, also when the section itself holds no table.
C10_TablesWithinSection ==
    (side_effects # <<>> /\ Len(tables) >= 2) =>
        /\ tables[1] < NextHeading(soup.after)
        /\ tables[2] < NextHeading(soup.after)

\* the texts that follow the emphasized runs from the heading on, in document
\* order: the runs inside the heading, then the runs met after it
RECURSIVE RunsAfter(_, _)
RunsAfter(after, i) ==
    IF i > Len(after) THEN <<>>
    ELSE IF after[i].name = "strong" THEN <<strip(after[i].rows[1][1])>> \o RunsAfter(after, i + 1)
    ELSE RunsAfter(after, i + 1)

RECURSIVE RunsInside(_, _)
RunsInside(inside, i) ==
    IF i > Len(inside) THEN <<>>
    ELSE IF inside[i].kind = "strong" THEN <<NextText(inside, i + 1)>> \o RunsInside(inside, i + 1)
    ELSE RunsInside(inside, i + 1)

EmphasizedRuns(sp) == RunsInside(sp.inside, 1) \o RunsAfter(sp.after, 1)

\* the comma-split list of the k-th run, empty when there is no such run
ListOfRun(sp, k) ==
    IF k <= Len(EmphasizedRuns(sp))
    THEN Effects(SplitComma(EmphasizedRuns(sp)[k], <<>>))
    ELSE <<>>

\* the entries of a list written one after the other, a comma between them
RECURSIVE Joined(_)
Joined(list) ==
    IF list = <<>> THEN <<>>
    ELSE IF Len(list) = 1 THEN Head(list)
    ELSE Head(list) \o <<",">> \o Joined(Tail(list))

\* a returned value as text, nothing for None
Shown(v) == IF v = None THEN <<>> ELSE v

\* C11: with two tables collected the result is the bottom-left cell (last
\* row, first cell) of the first as 'common' and of the second as 'serious';
\* with fewer it holds, for the first and the second emphasized run after the
\* heading, every entry of the comma-split list of the text that follows the
\* run, trailing periods trimmed.
C11_CellsElseFullLists ==
    (side_effects # <<>> /\ soup.header) =>
        IF Len(tables) >= 2
        THEN /\ side_effects[1].common = extract_bottom_left_cell(soup.after[tables[1]])
             /\ side_effects[1].serious = extract_bottom_left_cell(soup.after[tables[2]])
        ELSE /\ Shown(side_effects[1].common) = Joined(ListOfRun(soup, 1))
             /\ Shown(side_effects[1].serious) = Joined(ListOfRun(soup, 2))

====
